---- MODULE Spec2Model ----
(***************************************************************************)
(* Model of the MISRA review helper scripts in server/python:              *)
(*   fixed_response_code_snippet.py  extract_snippets_from_response        *)
(*   denumbering.py                  remove_line_numbers                   *)
(*   numbering.py                    add_line_numbers                      *)
(*   excel_utils.py                  extract_violations_for_file           *)
(* Text is a sequence of one-character strings, so that the regular        *)
(* expressions of the scripts are modelled character by character.         *)
(***************************************************************************)
EXTENDS Integers, Sequences, FiniteSets, TLC

VARIABLES
    \* fixed_response_code_snippet.py
    response_text, code_blocks, bi, lines, li, line, all_lines, pc,
    \* the process's output channels
    stdout, stderr,
    \* numbering.py / denumbering.py
    plan, files, made, tool, infile, idx, outfile, lpc,
    \* excel_utils.py
    workbook, target_file, df, filtered_df, row_i, violations, result, xpc

snippetVars == <<response_text, code_blocks, bi, lines, li, line, all_lines, pc>>
channelVars == <<stdout, stderr>>
lineVars == <<plan, files, made, tool, infile, idx, outfile, lpc>>
excelVars == <<workbook, target_file, df, filtered_df, row_i, violations, result, xpc>>
vars == <<snippetVars, channelVars, lineVars, excelVars>>

(***************************************************************************)
(* Bounds of the model.                                                    *)
(***************************************************************************)
MaxChunks == 3
MaxFileChunks == 3
MaxRows == 2

(***************************************************************************)
(* Character classes of Python's re module and of str.strip/splitlines.    *)
(***************************************************************************)
Digits == {"0", "1", "2", "3", "4", "5", "6", "7", "8", "9"}

Letters ==
    {"a", "b", "c", "d", "e", "f", "g", "h", "i", "j", "k", "l", "m",
     "n", "o", "p", "q", "r", "s", "t", "u", "v", "w", "x", "y", "z",
     "A", "B", "C", "D", "E", "F", "G", "H", "I", "J", "K", "L", "M",
     "N", "O", "P", "Q", "R", "S", "T", "U", "V", "W", "X", "Y", "Z"}

Whitespace == {" ", "\t", "\n", "\r", "\f"}

LineBreaks == {"\n", "\r", "\f"}

EmptyText == <<>>

EmptyMap == [l \in {} |-> EmptyText]

(***************************************************************************)
(* Sequence helpers.                                                       *)
(***************************************************************************)
Slice(s, a, b) == IF a > b THEN <<>> ELSE SubSeq(s, a, b)

From(s, a) == Slice(s, a, Len(s))

StartsWithAt(s, p, i) ==
    /\ i >= 1
    /\ i + Len(p) - 1 <= Len(s)
    /\ \A k \in 1..Len(p) : s[i + k - 1] = p[k]

\* The end (exclusive) of the longest run of characters of class C from i.
RECURSIVE RunEnd(_, _, _)
RunEnd(s, i, C) ==
    IF i <= Len(s) /\ s[i] \in C THEN RunEnd(s, i + 1, C) ELSE i

RECURSIVE Concat(_)
Concat(ss) == IF ss = <<>> THEN <<>> ELSE Head(ss) \o Concat(Tail(ss))

RECURSIVE LStrip(_)
LStrip(s) ==
    IF s # <<>> /\ Head(s) \in Whitespace THEN LStrip(Tail(s)) ELSE s

\* str.rstrip(): trailing whitespace removed, nothing else.
RStrip(s) ==
    LET keep == {k \in 1..Len(s) : s[k] \notin Whitespace}
    IN  IF keep = {} THEN <<>>
        ELSE Slice(s, 1, CHOOSE k \in keep : \A j \in keep : j <= k)

\* str.strip()
Strip(s) == LStrip(RStrip(s))

\* str.splitlines(): a line ends at "\n", "\r", "\r\n" or another line
\* boundary; the boundary is dropped and no empty last line is produced.
RECURSIVE SplitLines(_)
SplitLines(s) ==
    IF s = <<>> THEN <<>>
    ELSE LET brk == {k \in 1..Len(s) : s[k] \in LineBreaks}
         IN  IF brk = {} THEN <<s>>
             ELSE LET b == CHOOSE k \in brk : \A j \in brk : k <= j
                      e == IF s[b] = "\r" /\ b < Len(s) /\ s[b + 1] = "\n"
                           THEN b + 1 ELSE b
                  IN  <<Slice(s, 1, b - 1)>> \o SplitLines(From(s, e + 1))

Max(S) == CHOOSE k \in S : \A j \in S : j <= k

Min(S) == CHOOSE k \in S : \A j \in S : k <= j

\* All texts made of at most n chunks of the pool P, in any order.
Texts(P, n) == {Concat(cs) : cs \in UNION {[1..m -> P] : m \in 0..n}}

(***************************************************************************)
(* fixed_response_code_snippet.py                                          *)
(***************************************************************************)
\* The backquote character of a fence (written as a token: the module's
\* strings cannot hold it).
Backquote == "<backquote>"

Fence == <<Backquote, Backquote, Backquote>>

TagCpp == <<"c", "p", "p">>

TagCxx == <<"c", "+", "+">>

\* \s*\n from p: the whitespace run is taken greedily and given back up to
\* its last newline.  The index after that newline, or 0 (no match).
NewlineAfter(s, p) ==
    LET q == RunEnd(s, p, Whitespace)
        nl == {k \in p..(q - 1) : s[k] = "\n"}
    IN  IF nl = {} THEN 0 ELSE Max(nl) + 1

\* The opening fence, three backquotes then (?:cpp|c\+\+)?\s*\n, at i: the
\* index at which the block's content starts, or 0 when no opening fence
\* matches at i.
OpenFence(s, i) ==
    IF ~StartsWithAt(s, Fence, i) THEN 0
    ELSE LET p == i + Len(Fence)
             tagged == IF StartsWithAt(s, TagCpp, p) THEN NewlineAfter(s, p + Len(TagCpp))
                       ELSE IF StartsWithAt(s, TagCxx, p) THEN NewlineAfter(s, p + Len(TagCxx))
                       ELSE 0
         IN  IF tagged # 0 THEN tagged ELSE NewlineAfter(s, p)

\* (.*?) then three backquotes, with re.DOTALL, from st: the first closing fence at or after st,
\* or 0 when the text has none.
CloseFence(s, st) ==
    LET cs == {c \in st..Len(s) : StartsWithAt(s, Fence, c)}
    IN  IF cs = {} THEN 0 ELSE Min(cs)

\* re.findall: the non-overlapping matches from left to right, each
\* contributing its group 1.
RECURSIVE FindAllFrom(_, _)
FindAllFrom(s, i) ==
    LET at == {j \in i..Len(s) :
                  OpenFence(s, j) # 0 /\ CloseFence(s, OpenFence(s, j)) # 0}
    IN  IF at = {} THEN <<>>
        ELSE LET st == OpenFence(s, Min(at))
                 c == CloseFence(s, st)
             IN  <<Slice(s, st, c - 1)>> \o FindAllFrom(s, c + Len(Fence))

FindAll(s) == FindAllFrom(s, 1)

\* re.match(r"^(\d+[a-zA-Z]*):(.*)$", line)
LineMatch(l) ==
    LET d == RunEnd(l, 1, Digits)
        a == RunEnd(l, d, Letters)
        rest == From(l, a + 1)
        nl == {k \in 1..Len(rest) : rest[k] = "\n"}
    IN  IF d > 1 /\ a <= Len(l) /\ l[a] = ":" /\ nl \subseteq {Len(rest)}
        THEN [ok |-> TRUE, g1 |-> Slice(l, 1, a - 1),
              g2 |-> IF nl = {} THEN rest ELSE Slice(rest, 1, Len(rest) - 1)]
        ELSE [ok |-> FALSE, g1 |-> <<>>, g2 |-> <<>>]

\* lineno = match.group(1).strip()
Lineno(l) == Strip(LineMatch(l).g1)

CodeBackslashToo(l) ==
    LET s == LineMatch(l).g2
        keep == {k \in 1..Len(s) : s[k] \notin Whitespace \cup {"\\"}}
    IN  IF keep = {} THEN <<>>
        ELSE Slice(s, 1, CHOOSE k \in keep : \A j \in keep : j <= k)

\* code = match.group(2).rstrip()
Code(l) == RStrip(LineMatch(l).g2)

StoreFirst(m, k, v) ==
    [l \in (DOMAIN m) \cup {k} |-> IF l \in DOMAIN m THEN m[l] ELSE v]

\* all_lines[lineno] = code
Store(m, k, v) == [l \in (DOMAIN m) \cup {k} |-> IF l = k THEN v ELSE m[l]]

\* Pieces of a model response: fences, numbered lines, prose.
ResponseChunks ==
    { <<Backquote, Backquote, Backquote, "c", "p", "p", "\n">>,
      <<Backquote, Backquote, Backquote, "\n">>,
      <<Backquote, Backquote, Backquote, "p", "y", "\n", "h", "i", "\n",
        Backquote, Backquote, Backquote, "\n">>,
      <<"1", ":", " ", "x", "\n">>,
      <<"1", "2", "a", ":", " ", "f", " ", "\\", "\n">>,
      <<"2", ":", " ", " ", "x", " ", "\t", "\r", "\n">>,
      <<"h", "i", "\n">>,
      <<Backquote, Backquote, Backquote, "c", "+", "+", "\n", "h", "i", "\n",
        "1", ":", " ", "z", "\n", Backquote, Backquote, Backquote>>,
      <<Backquote, Backquote, Backquote, "\n", "1", ":", "y", "\n",
        "1", ":", " ", "w", "\n", Backquote, Backquote, Backquote, "\n">> }

SnippetsIdle ==
    /\ response_text = <<>>
    /\ code_blocks = <<>>
    /\ bi = 0
    /\ lines = <<>>
    /\ li = 0
    /\ line = <<>>
    /\ all_lines = EmptyMap
    /\ pc = "idle"

ChannelsInit ==
    /\ stdout = <<>>
    /\ stderr = <<>>

\* line 11: code_blocks = re.findall(...); line 13: all_lines = {}
FindBlocks ==
    /\ pc = "start"
    /\ code_blocks' = FindAll(response_text)
    /\ all_lines' = EmptyMap
    /\ bi' = 0
    /\ pc' = "for_block"
    /\ UNCHANGED <<response_text, lines, li, line, stdout, stderr>>
    /\ UNCHANGED <<lineVars, excelVars>>

\* lines 15-16: the next block; lines = block.strip().splitlines()
NextBlock ==
    /\ pc = "for_block"
    /\ bi < Len(code_blocks)
    /\ bi' = bi + 1
    /\ lines' = SplitLines(Strip(code_blocks[bi + 1]))
    /\ li' = 0
    /\ pc' = "for_line"
    /\ UNCHANGED <<response_text, code_blocks, line, all_lines, stdout, stderr>>
    /\ UNCHANGED <<lineVars, excelVars>>

\* lines 17-22: a line that matches is stored under its label
StoreLine ==
    /\ pc = "for_line"
    /\ li < Len(lines)
    /\ LineMatch(lines[li + 1]).ok
    /\ li' = li + 1
    /\ line' = lines[li + 1]
    /\ all_lines' = Store(all_lines, Lineno(lines[li + 1]), Code(lines[li + 1]))
    /\ UNCHANGED <<response_text, code_blocks, bi, lines, pc, stdout, stderr>>
    /\ UNCHANGED <<lineVars, excelVars>>

SkipLineLeavesBlock ==
    /\ pc = "for_line"
    /\ li < Len(lines)
    /\ ~LineMatch(lines[li + 1]).ok
    /\ li' = Len(lines)
    /\ line' = lines[li + 1]
    /\ stderr' = Append(stderr, lines[li + 1])
    /\ UNCHANGED <<response_text, code_blocks, bi, lines, all_lines, pc, stdout>>
    /\ UNCHANGED <<lineVars, excelVars>>

\* lines 17-18, 23-24: a line that does not match is reported on stderr
SkipLine ==
    /\ pc = "for_line"
    /\ li < Len(lines)
    /\ ~LineMatch(lines[li + 1]).ok
    /\ li' = li + 1
    /\ line' = lines[li + 1]
    /\ stderr' = Append(stderr, lines[li + 1])
    /\ UNCHANGED <<response_text, code_blocks, bi, lines, all_lines, pc, stdout>>
    /\ UNCHANGED <<lineVars, excelVars>>

\* the inner loop is exhausted
EndBlock ==
    /\ pc = "for_line"
    /\ li = Len(lines)
    /\ pc' = "for_block"
    /\ UNCHANGED <<response_text, code_blocks, bi, lines, li, line, all_lines,
                   stdout, stderr>>
    /\ UNCHANGED <<lineVars, excelVars>>

\* line 26: return all_lines; line 39: print(json.dumps(snippets))
ReturnSnippets ==
    /\ pc = "for_block"
    /\ bi = Len(code_blocks)
    /\ pc' = "done"
    /\ stdout' = Append(stdout, all_lines)
    /\ UNCHANGED <<response_text, code_blocks, bi, lines, li, line, all_lines, stderr>>
    /\ UNCHANGED <<lineVars, excelVars>>

(***************************************************************************)
(* numbering.py and denumbering.py                                         *)
(***************************************************************************)
\* open(path, 'r'): universal newlines, "\r\n" and "\r" are read as "\n".
RECURSIVE Universal(_)
Universal(s) ==
    LET cr == {k \in 1..Len(s) : s[k] = "\r"}
    IN  IF cr = {} THEN s
        ELSE LET c == Min(cr)
                 n == IF c < Len(s) /\ s[c + 1] = "\n" THEN c + 2 ELSE c + 1
             IN  Slice(s, 1, c - 1) \o <<"\n">> \o Universal(From(s, n))

\* Iterating a text file: each line keeps its "\n"; the last may have none.
RECURSIVE FileLines(_)
FileLines(s) ==
    IF s = <<>> THEN <<>>
    ELSE LET nl == {k \in 1..Len(s) : s[k] = "\n"}
         IN  IF nl = {} THEN <<s>>
             ELSE <<Slice(s, 1, Min(nl))>> \o FileLines(From(s, Min(nl) + 1))

DigitSeq == <<"0", "1", "2", "3", "4", "5", "6", "7", "8", "9">>

\* f"{i}": the decimal digits of i
RECURSIVE Str(_)
Str(n) ==
    IF n < Len(DigitSeq) THEN <<DigitSeq[n + 1]>>
    ELSE Str(n \div Len(DigitSeq)) \o <<DigitSeq[(n % Len(DigitSeq)) + 1]>>

\* f"{i}: {line}"
Numbered(n, l) == Str(n) \o <<":", " ">> \o l

\* The end of a label, its colon and one optional whitespace character
\* starting at i, or 0.
LabelEndAt(l, i) ==
    LET d == RunEnd(l, i, Digits)
        a == RunEnd(l, d, Letters)
    IN  IF d > i /\ a <= Len(l) /\ l[a] = ":"
        THEN IF a + 1 <= Len(l) /\ l[a + 1] \in Whitespace THEN a + 1 ELSE a
        ELSE 0

RemovePrefixAnywhere(l) ==
    LET at == {i \in 1..Len(l) : LabelEndAt(l, i) # 0}
    IN  IF at = {} THEN l
        ELSE Slice(l, 1, Min(at) - 1) \o From(l, LabelEndAt(l, Min(at)) + 1)

RemovePrefixAllSpace(l) ==
    LET d == RunEnd(l, 1, Digits)
        a == RunEnd(l, d, Letters)
    IN  IF d > 1 /\ a <= Len(l) /\ l[a] = ":"
        THEN From(l, RunEnd(l, a + 1, {" ", "\t"}))
        ELSE l

\* re.sub(r'^\d+[a-zA-Z]*:\s?', '', line)
RemovePrefix(l) ==
    LET d == RunEnd(l, 1, Digits)
        a == RunEnd(l, d, Letters)
    IN  IF d > 1 /\ a <= Len(l) /\ l[a] = ":"
        THEN IF a + 1 <= Len(l) /\ l[a + 1] \in Whitespace
             THEN From(l, a + 2) ELSE From(l, a + 1)
        ELSE l

\* Pieces of a text file: plain, empty, numbered and labelled lines.
FileChunks ==
    { <<"x", " ", "5", ":", " ", "v", "\n", "\n">>,
      <<" ", "4", ":", " ", "w", "\r", "\n">>,
      <<"1", "2", ":", "\n">>,
      <<"3", "a", ":", "\t", "z", "\n">>,
      <<"1", ":", " ", "2", ":", " ", "y", "\n">>,
      <<"7", ":", "q">>,
      <<"a", "\n", " ", "b", "\n", "9", ":", " ", "c", "\n", "\n", "d", "\n">> }

\* What the caller of the scripts runs, each script on the file the one
\* before it wrote: the stripper alone, or adder, stripper and adder.
Plans == {<<"denumbering">>, <<"numbering", "denumbering", "numbering">>}

LinesIdle ==
    /\ plan = <<>>
    /\ files = <<>>
    /\ made = <<>>
    /\ tool = "none"
    /\ infile = <<>>
    /\ idx = 0
    /\ outfile = <<>>
    /\ lpc = "unused"

\* numbering.py lines 4-5: both files are opened, the input is iterated
StartAdd ==
    /\ lpc = "idle"
    /\ Len(made) < Len(plan)
    /\ plan[Len(made) + 1] = "numbering"
    /\ tool' = "numbering"
    /\ infile' = FileLines(Universal(files[Len(files)]))
    /\ idx' = 0
    /\ outfile' = <<>>
    /\ lpc' = "loop"
    /\ UNCHANGED <<plan, files, made, stdout, stderr>>
    /\ UNCHANGED <<snippetVars, excelVars>>

\* numbering.py lines 5-6: outfile.write(f"{i}: {line}")
AddLine ==
    /\ lpc = "loop"
    /\ tool = "numbering"
    /\ idx < Len(infile)
    /\ idx' = idx + 1
    /\ outfile' = Append(outfile, Numbered(idx + 1, infile[idx + 1]))
    /\ UNCHANGED <<plan, files, made, tool, infile, lpc, stdout, stderr>>
    /\ UNCHANGED <<snippetVars, excelVars>>

\* numbering.py: the with block closes the files; line 16 prints
FinishAdd ==
    /\ lpc = "loop"
    /\ tool = "numbering"
    /\ idx = Len(infile)
    /\ files' = Append(files, Concat(outfile))
    /\ made' = Append(made, tool)
    /\ lpc' = "idle"
    /\ stdout' = Append(stdout, "Numbered file created")
    /\ UNCHANGED <<plan, tool, infile, idx, outfile, stderr>>
    /\ UNCHANGED <<snippetVars, excelVars>>

\* denumbering.py lines 5-6
StartRemove ==
    /\ lpc = "idle"
    /\ Len(made) < Len(plan)
    /\ plan[Len(made) + 1] = "denumbering"
    /\ tool' = "denumbering"
    /\ infile' = FileLines(Universal(files[Len(files)]))
    /\ idx' = 0
    /\ outfile' = <<>>
    /\ lpc' = "loop"
    /\ UNCHANGED <<plan, files, made, stdout, stderr>>
    /\ UNCHANGED <<snippetVars, excelVars>>

\* denumbering.py lines 6-9: outfile.write(new_line)
RemoveLine ==
    /\ lpc = "loop"
    /\ tool = "denumbering"
    /\ idx < Len(infile)
    /\ idx' = idx + 1
    /\ outfile' = Append(outfile, RemovePrefix(infile[idx + 1]))
    /\ UNCHANGED <<plan, files, made, tool, infile, lpc, stdout, stderr>>
    /\ UNCHANGED <<snippetVars, excelVars>>

\* denumbering.py: the with block closes the files; line 19 prints
FinishRemove ==
    /\ lpc = "loop"
    /\ tool = "denumbering"
    /\ idx = Len(infile)
    /\ files' = Append(files, Concat(outfile))
    /\ made' = Append(made, tool)
    /\ lpc' = "idle"
    /\ stdout' = Append(stdout, "Denumbered file created")
    /\ UNCHANGED <<plan, tool, infile, idx, outfile, stderr>>
    /\ UNCHANGED <<snippetVars, excelVars>>

(***************************************************************************)
(* excel_utils.py                                                          *)
(***************************************************************************)
DigitValue(c) == CHOOSE d \in 0..(Len(DigitSeq) - 1) : DigitSeq[d + 1] = c

\* int(match.group(1))
RECURSIVE ToInt(_)
ToInt(ds) ==
    IF ds = <<>> THEN 0
    ELSE ToInt(Slice(ds, 1, Len(ds) - 1)) * Len(DigitSeq) + DigitValue(ds[Len(ds)])

\* A cell of the sheet: a text, or an empty cell, which pandas reads as NaN.
Text(t) == [kind |-> "str", text |-> t]

NaN == [kind |-> "nan", text |-> <<>>]

\* str(text)
StrOf(cell) == IF cell.kind = "nan" THEN <<"n", "a", "n">> ELSE cell.text

\* Line is None, or an integer n held as <<n>>.
None == <<>>

LinePrefix == <<"[", "L", "i", "n", "e", " ">>

\* re.match(r"\[Line (\d+)\]\s*(.+)", str(text)); (int(group 1), group 2)
\* when it matches, else (None, text).  \s* is greedy and gives characters
\* back until (.+) finds one that is not a newline; (.+) stops at a newline.
parse_line_warning(cell) ==
    LET t == StrOf(cell)
        d0 == Len(LinePrefix) + 1
        d == RunEnd(t, d0, Digits)
        w == RunEnd(t, d + 1, Whitespace)
        back == {j \in (d + 1)..(w - 1) : t[j] # "\n"}
        st == IF w <= Len(t) THEN w ELSE IF back = {} THEN 0 ELSE Max(back)
        nl == {k \in st..Len(t) : t[k] = "\n"}
        en == IF nl = {} THEN Len(t) ELSE Min(nl) - 1
    IN  IF StartsWithAt(t, LinePrefix, 1) /\ d > d0 /\ d <= Len(t) /\ t[d] = "]"
           /\ st # 0
        THEN [Line |-> <<ToInt(Slice(t, d0, d - 1))>>, Warning |-> Text(Slice(t, st, en))]
        ELSE [Line |-> None, Warning |-> cell]

FilterRowsAll(rows, target) == rows

\* df[df['File'] == target_file]
FilterRows(rows, target) == SelectSeq(rows, LAMBDA r : r.File = target)

Cells ==
    { Text(<<"[", "L", "i", "n", "e", " ", "4", "2", "]", " ", "a", "b">>),
      Text(<<"[", "L", "i", "n", "e", " ", "4", "2", "]">>),
      Text(<<"[", "L", "i", "n", "e", " ", "7", "]", " ", " ", "x", " ", "y">>),
      Text(<<"[", "L", "i", "n", "e", " ", "4", "]", " ", "a", "\n", "b">>),
      Text(<<"n", "o", "t", "e">>),
      NaN }

SheetRows ==
    [File : {"a.cpp", "b.cpp"}, Path : {"src"}, LineAndWarning : Cells,
     Level : {"warn"}, Misra : {"R1"}]

Faults == {"none", "unreadable", "File", "Path", "Line and Warning", "Level", "Misra"}

Has(col) == workbook.fault # col

ExcelIdle ==
    /\ workbook = [fault |-> "none", rows |-> <<>>]
    /\ target_file = "none"
    /\ df = <<>>
    /\ filtered_df = <<>>
    /\ row_i = 0
    /\ violations = <<>>
    /\ result = <<>>
    /\ xpc = "unused"

\* line 8: df = pd.read_excel(...)
ReadExcel ==
    /\ xpc = "read"
    /\ workbook.fault # "unreadable"
    /\ df' = workbook.rows
    /\ xpc' = "parse"
    /\ UNCHANGED <<workbook, target_file, filtered_df, row_i, violations, result,
                   stdout, stderr>>
    /\ UNCHANGED <<snippetVars, lineVars>>

\* line 8 raises: the workbook cannot be read
ReadExcelRaises ==
    /\ xpc = "read"
    /\ workbook.fault = "unreadable"
    /\ xpc' = "except"
    /\ UNCHANGED <<workbook, target_file, df, filtered_df, row_i, violations, result,
                   stdout, stderr>>
    /\ UNCHANGED <<snippetVars, lineVars>>

\* line 14: the Line and Warning columns are computed for every row
ParseColumn ==
    /\ xpc = "parse"
    /\ Has("Line and Warning")
    /\ df' = [k \in 1..Len(df) |->
                [File |-> df[k].File, Path |-> df[k].Path,
                 LineAndWarning |-> df[k].LineAndWarning,
                 Level |-> df[k].Level, Misra |-> df[k].Misra,
                 Line |-> parse_line_warning(df[k].LineAndWarning).Line,
                 Warning |-> parse_line_warning(df[k].LineAndWarning).Warning]]
    /\ xpc' = "filter"
    /\ UNCHANGED <<workbook, target_file, filtered_df, row_i, violations, result,
                   stdout, stderr>>
    /\ UNCHANGED <<snippetVars, lineVars>>

\* line 14 raises: KeyError when the column is absent; on a sheet without
\* rows the two-column assignment of an empty result may raise as well.
ParseColumnRaises ==
    /\ xpc = "parse"
    /\ ~Has("Line and Warning") \/ df = <<>>
    /\ xpc' = "except"
    /\ UNCHANGED <<workbook, target_file, df, filtered_df, row_i, violations, result,
                   stdout, stderr>>
    /\ UNCHANGED <<snippetVars, lineVars>>

\* lines 16-19 and 47: no row of the target file, [] is returned and printed
FilterEmpty ==
    /\ xpc = "filter"
    /\ Has("File")
    /\ FilterRows(df, target_file) = <<>>
    /\ filtered_df' = <<>>
    /\ result' = <<>>
    /\ stdout' = Append(stdout, <<>>)
    /\ xpc' = "done"
    /\ UNCHANGED <<workbook, target_file, df, row_i, violations, stderr>>
    /\ UNCHANGED <<snippetVars, lineVars>>

\* lines 16-22: the rows of the target file are selected
Filter ==
    /\ xpc = "filter"
    /\ Has("File")
    /\ FilterRows(df, target_file) # <<>>
    /\ filtered_df' = FilterRows(df, target_file)
    /\ violations' = <<>>
    /\ row_i' = 0
    /\ xpc' = "iter"
    /\ UNCHANGED <<workbook, target_file, df, result, stdout, stderr>>
    /\ UNCHANGED <<snippetVars, lineVars>>

\* line 16 raises: KeyError, no File column
FilterRaises ==
    /\ xpc = "filter"
    /\ ~Has("File")
    /\ xpc' = "except"
    /\ UNCHANGED <<workbook, target_file, df, filtered_df, row_i, violations, result,
                   stdout, stderr>>
    /\ UNCHANGED <<snippetVars, lineVars>>

\* lines 23-31: one record is appended for the next selected row
AppendRow ==
    /\ xpc = "iter"
    /\ row_i < Len(filtered_df)
    /\ Has("Path") /\ Has("Misra")
    /\ row_i' = row_i + 1
    /\ violations' = Append(violations,
            [File |-> filtered_df[row_i + 1].File,
             Path |-> filtered_df[row_i + 1].Path,
             Line |-> filtered_df[row_i + 1].Line,
             Warning |-> filtered_df[row_i + 1].Warning,
             Level |-> IF Has("Level") THEN filtered_df[row_i + 1].Level ELSE "",
             Misra |-> filtered_df[row_i + 1].Misra])
    /\ UNCHANGED <<workbook, target_file, df, filtered_df, result, xpc, stdout, stderr>>
    /\ UNCHANGED <<snippetVars, lineVars>>

\* lines 26 and 30 raise: KeyError, no Path or no Misra column
AppendRowRaises ==
    /\ xpc = "iter"
    /\ row_i < Len(filtered_df)
    /\ ~Has("Path") \/ ~Has("Misra")
    /\ xpc' = "except"
    /\ UNCHANGED <<workbook, target_file, df, filtered_df, row_i, violations, result,
                   stdout, stderr>>
    /\ UNCHANGED <<snippetVars, lineVars>>

\* lines 33 and 47: return violations; print(json.dumps(violations))
ReturnViolations ==
    /\ xpc = "iter"
    /\ row_i = Len(filtered_df)
    /\ result' = violations
    /\ stdout' = Append(stdout, violations)
    /\ xpc' = "done"
    /\ UNCHANGED <<workbook, target_file, df, filtered_df, row_i, violations, stderr>>
    /\ UNCHANGED <<snippetVars, lineVars>>

\* lines 34-36 and 47: the exception is reported on stderr, [] is returned
Except ==
    /\ xpc = "except"
    /\ stderr' = Append(stderr, "Error parsing Excel file")
    /\ result' = <<>>
    /\ stdout' = Append(stdout, <<>>)
    /\ xpc' = "done"
    /\ UNCHANGED <<workbook, target_file, df, filtered_df, row_i, violations>>
    /\ UNCHANGED <<snippetVars, lineVars>>

(***************************************************************************)
(* The specifications: one per script, each run on every input of its      *)
(* bounded input set.                                                      *)
(***************************************************************************)
InitSnippets ==
    /\ response_text \in Texts(ResponseChunks, MaxChunks)
    /\ code_blocks = <<>>
    /\ bi = 0
    /\ lines = <<>>
    /\ li = 0
    /\ line = <<>>
    /\ all_lines = EmptyMap
    /\ pc = "start"
    /\ ChannelsInit
    /\ LinesIdle
    /\ ExcelIdle

NextSnippets ==
    \/ FindBlocks
    \/ NextBlock
    \/ StoreLine
    \/ SkipLine
    \/ EndBlock
    \/ ReturnSnippets

SpecSnippets == InitSnippets /\ [][NextSnippets]_vars

InitLines ==
    /\ plan \in Plans
    /\ files \in {<<f>> : f \in Texts(FileChunks, MaxFileChunks)}
    /\ made = <<>>
    /\ tool = "none"
    /\ infile = <<>>
    /\ idx = 0
    /\ outfile = <<>>
    /\ lpc = "idle"
    /\ ChannelsInit
    /\ SnippetsIdle
    /\ ExcelIdle

NextLines ==
    \/ StartAdd
    \/ AddLine
    \/ FinishAdd
    \/ StartRemove
    \/ RemoveLine
    \/ FinishRemove

SpecLines == InitLines /\ [][NextLines]_vars

InitExcel ==
    /\ workbook \in [fault : Faults,
                     rows : UNION {[1..n -> SheetRows] : n \in 0..MaxRows}]
    /\ target_file \in {"a.cpp", "c.cpp"}
    /\ df = <<>>
    /\ filtered_df = <<>>
    /\ row_i = 0
    /\ violations = <<>>
    /\ result = <<>>
    /\ xpc = "read"
    /\ ChannelsInit
    /\ SnippetsIdle
    /\ LinesIdle

NextExcel ==
    \/ ReadExcel
    \/ ReadExcelRaises
    \/ ParseColumn
    \/ ParseColumnRaises
    \/ FilterEmpty
    \/ Filter
    \/ FilterRaises
    \/ AppendRow
    \/ AppendRowRaises
    \/ ReturnViolations
    \/ Except

SpecExcel == InitExcel /\ [][NextExcel]_vars

(***************************************************************************)
(* The statements about extract_snippets_from_response.                    *)
(***************************************************************************)
\* A line of the form <label>:<rest>, the label being one or more digits
\* followed by zero or more letters.
IsLabelled(l) ==
    \E a \in 2..Len(l) :
        /\ l[a] = ":"
        /\ \E d \in 1..(a - 1) :
              /\ \A k \in 1..d : l[k] \in Digits
              /\ \A k \in (d + 1)..(a - 1) : l[k] \in Letters

Colon(l) == Min({k \in 1..Len(l) : l[k] = ":"})

LabelOf(l) == Slice(l, 1, Colon(l) - 1)

RestOf(l) == From(l, Colon(l) + 1)

\* One separator space after the colon is consumed when there is one.
DropSeparator(r) == IF r # <<>> /\ Head(r) = " " THEN Tail(r) ELSE r

\* r without its trailing whitespace.
Trimmed(r) ==
    Slice(r, 1, CHOOSE n \in 0..Len(r) :
                    /\ \A k \in (n + 1)..Len(r) : r[k] \in Whitespace
                    /\ n = 0 \/ r[n] \notin Whitespace)

EndsWith(s, t) == Len(t) <= Len(s) /\ From(s, Len(s) - Len(t) + 1) = t

\* The lines the loops have processed so far, in input order.
Processed ==
    IF bi = 0 THEN <<>>
    ELSE Concat([b \in 1..(bi - 1) |-> SplitLines(Strip(code_blocks[b]))])
         \o Slice(lines, 1, li)

JustProcessed == pc = "for_line" /\ li > 0 /\ line = lines[li]

\* C1: the value stored for a line <label>:<rest> is <rest> with one leading
\* separator space consumed and the trailing whitespace removed.
C1_SeparatorConsumed ==
    JustProcessed /\ IsLabelled(line) =>
        /\ LabelOf(line) \in DOMAIN all_lines
        /\ all_lines[LabelOf(line)] = Trimmed(DropSeparator(RestOf(line)))

\* C2: the value stored for a line keeps everything after the separator
\* verbatim (indentation, internal whitespace, backslashes); only trailing
\* whitespace is removed, so a code ending in a space and a backslash keeps
\* both, also on the last line of a block.
C2_CodePreserved ==
    JustProcessed /\ IsLabelled(line) =>
        /\ LabelOf(line) \in DOMAIN all_lines
        /\ all_lines[LabelOf(line)] \in
              {Trimmed(RestOf(line)), Trimmed(DropSeparator(RestOf(line)))}
        /\ EndsWith(RestOf(line), <<" ", "\\">>) =>
              EndsWith(all_lines[LabelOf(line)], <<" ", "\\">>)

C2_Witness ==
    /\ JustProcessed
    /\ li = Len(lines)
    /\ line = <<"1", "2", "a", ":", " ", "f", " ", "\\">>
    /\ <<"1", "2", "a">> \in DOMAIN all_lines
    /\ EndsWith(all_lines[<<"1", "2", "a">>], <<"f", " ", "\\">>)

\* C3: last write wins.  Every label of the mapping holds the code of the
\* last processed line carrying that label, within one block or across blocks.
C3_LastWriteWins ==
    LET done == Processed
    IN  \A label \in DOMAIN all_lines :
            LET at == {k \in 1..Len(done) :
                          IsLabelled(done[k]) /\ LabelOf(done[k]) = label}
            IN  /\ at # {}
                /\ all_lines[label] = Code(done[Max(at)])

C3_Witness ==
    /\ pc = "done"
    /\ bi > 1
    /\ LET done == Processed
           first == Len(SplitLines(Strip(code_blocks[1])))
       IN  \E j, k \in 1..Len(done) :
              /\ j <= first
              /\ k > first
              /\ IsLabelled(done[j]) /\ IsLabelled(done[k])
              /\ LabelOf(done[j]) = LabelOf(done[k])
              /\ Code(done[j]) # Code(done[k])
              /\ all_lines[LabelOf(done[k])] = Code(done[k])
              /\ \A n \in (k + 1)..Len(done) :
                    ~(IsLabelled(done[n]) /\ LabelOf(done[n]) = LabelOf(done[k]))

\* C4: extraction never fails.  The keys are exactly the labels of the
\* conforming lines processed, each non-conforming line is reported on stderr
\* and on stderr only, a response without fences or without conforming lines
\* gives the empty mapping, and the run always goes on to its result.
C4_NeverFails ==
    /\ \/ pc = "done"
       \/ pc = "start"
       \/ pc = "for_block" /\ bi <= Len(code_blocks)
       \/ pc = "for_line" /\ li <= Len(lines)
    /\ LET done == Processed
       IN  /\ DOMAIN all_lines =
                 {LabelOf(done[k]) : k \in {j \in 1..Len(done) : IsLabelled(done[j])}}
           /\ stderr = SelectSeq(done, LAMBDA l : ~IsLabelled(l))
    /\ stdout = IF pc = "done" THEN <<all_lines>> ELSE <<>>
    /\ pc = "done" /\ (\A k \in 1..Len(response_text) :
                          ~StartsWithAt(response_text, Fence, k))
          => all_lines = EmptyMap

C4_Witness ==
    /\ pc = "done"
    /\ LET done == Processed
       IN  \E j, k \in 1..Len(done) :
              /\ j < k
              /\ ~IsLabelled(done[j])
              /\ IsLabelled(done[k])
              /\ LabelOf(done[k]) \in DOMAIN all_lines
              /\ stderr = <<done[j]>>

\* The fences of a text from left to right, and the blocks they delimit by
\* pairs: an opening fence and the first fence after it.
RECURSIVE FencesFrom(_, _)
FencesFrom(s, i) ==
    LET at == {j \in i..Len(s) : StartsWithAt(s, Fence, j)}
    IN  IF at = {} THEN <<>>
        ELSE <<Min(at)>> \o FencesFrom(s, Min(at) + Len(Fence))

\* The content start of a block opened at o by three backquotes, an
\* optional tag cpp or c++ and a newline; 0 for any other opening fence.
ContentStart(s, o) ==
    LET p == o + Len(Fence)
    IN  IF StartsWithAt(s, <<"\n">>, p) THEN p + 1
        ELSE IF StartsWithAt(s, TagCpp \o <<"\n">>, p) THEN p + Len(TagCpp) + 1
        ELSE IF StartsWithAt(s, TagCxx \o <<"\n">>, p) THEN p + Len(TagCxx) + 1
        ELSE 0

\* The lines of the cpp, c++ and untagged fenced blocks of a text.
RECURSIVE Lines(_)
Lines(s) ==
    IF s = <<>> THEN <<>>
    ELSE LET nl == {k \in 1..Len(s) : s[k] = "\n"}
         IN  IF nl = {} THEN <<s>>
             ELSE <<Slice(s, 1, Min(nl) - 1)>> \o Lines(From(s, Min(nl) + 1))

BlockLines(s) ==
    LET f == FencesFrom(s, 1)
        n == Len(f) \div 2
    IN  Concat([b \in 1..n |->
                   IF ContentStart(s, f[2 * b - 1]) = 0 THEN <<>>
                   ELSE Lines(Slice(s, ContentStart(s, f[2 * b - 1]), f[2 * b] - 1))])

BlockLabels(s) ==
    {LabelOf(BlockLines(s)[k]) :
        k \in {j \in 1..Len(BlockLines(s)) : IsLabelled(BlockLines(s)[j])}}

\* A text whose fences pair up: each opening fence starts a line and is
\* followed by a tag (cpp, c++, another word or nothing) and a newline, each
\* closing fence starts a line and ends it.
Balanced(s) ==
    LET f == FencesFrom(s, 1)
        AtLineStart(i) == i = 1 \/ s[i - 1] = "\n"
    IN  /\ Len(f) % 2 = 0
        /\ \A b \in 1..(Len(f) \div 2) :
              LET o == f[2 * b - 1] + Len(Fence)
                  c == f[2 * b] + Len(Fence)
                  t == RunEnd(s, o, Letters \cup {"+"})
              IN  /\ AtLineStart(f[2 * b - 1])
                  /\ t <= Len(s) /\ s[t] = "\n"
                  /\ AtLineStart(f[2 * b])
                  /\ c > Len(s) \/ s[c] = "\n"

\* C10: in a text whose fences pair up, every conforming line of every cpp,
\* c++ or untagged fenced block is a key of the result whatever surrounds the
\* block (prose, other such blocks, blocks with another tag), and nothing
\* outside such blocks contributes a key.
C10_BlocksIndependent ==
    pc = "done" /\ Balanced(response_text) =>
        DOMAIN all_lines = BlockLabels(response_text)

(***************************************************************************)
(* The statements about add_line_numbers and remove_line_numbers.          *)
(***************************************************************************)
\* The lines of file k as the scripts read them.
LinesRead(k) == FileLines(Universal(files[k]))

\* A line without its leading label, colon and zero or one space.
Unlabelled(l) == IF IsLabelled(l) THEN DropSeparator(RestOf(l)) ELSE l

\* C5: the output of remove_line_numbers has as many lines as its input, and
\* line i of the output is line i of the input with at most its label, colon
\* and one space removed.
C5_LineForLine ==
    \A k \in 1..Len(made) :
        made[k] = "denumbering" =>
            LET in == LinesRead(k)
                out == FileLines(files[k + 1])
            IN  /\ Len(out) = Len(in)
                /\ \A j \in 1..Len(in) : out[j] \in {in[j], Unlabelled(in[j])}

\* C6: add_line_numbers writes line i as the decimal i, a colon, a space and
\* the line; remove_line_numbers undoes it; numbering the result again gives
\* the numbered file again.
C6_RoundTrip ==
    \A k \in 1..Len(made) :
        /\ made[k] = "numbering" =>
              LET in == LinesRead(k)
                  out == FileLines(files[k + 1])
              IN  /\ Len(out) = Len(in)
                  /\ \A j \in 1..Len(in) :
                        LET c == Colon(out[j])
                        IN  /\ c > 1
                            /\ \A n \in 1..(c - 1) : out[j][n] \in Digits
                            /\ out[j][1] # "0"
                            /\ ToInt(Slice(out[j], 1, c - 1)) = j
                            /\ From(out[j], c + 1) = <<" ">> \o in[j]
        /\ k + 1 <= Len(made) /\ made[k] = "numbering" /\ made[k + 1] = "denumbering"
              => files[k + 2] = Universal(files[k])
        /\ k + 2 <= Len(made) /\ made[k] = "numbering" /\ made[k + 1] = "denumbering"
              /\ made[k + 2] = "numbering"
              => files[k + 3] = files[k + 1]

C6_Witness ==
    /\ made = <<"numbering", "denumbering", "numbering">>
    /\ LET in == LinesRead(1)
       IN  /\ Len(in) > Len(DigitSeq)
           /\ \E j \in 1..Len(in) : IsLabelled(in[j])
           /\ \E j \in 1..Len(in) : in[j] = <<"\n">>
           /\ "\n" \notin {in[Len(in)][n] : n \in 1..Len(in[Len(in)])}
    /\ files[4] = files[2]
    /\ files[3] = Universal(files[1])

MatchingRows == SelectSeq(workbook.rows, LAMBDA r : r.File = target_file)

\* A text that starts with [Line <digits>]
HasLinePrefix(t) ==
    /\ StartsWithAt(t, LinePrefix, 1)
    /\ \E c \in (Len(LinePrefix) + 2)..Len(t) :
          /\ t[c] = "]"
          /\ \A k \in (Len(LinePrefix) + 1)..(c - 1) : t[k] \in Digits

Bracket(t) == Min({k \in 1..Len(t) : t[k] = "]"})

Number(t) == ToInt(Slice(t, Len(LinePrefix) + 1, Bracket(t) - 1))

\* What follows the bracket, and the message: what follows the whitespace
\* separating it from the bracket.
AfterBracket(t) == From(t, Bracket(t) + 1)

Message(t) == LStrip(AfterBracket(t))

\* C8: a cell [Line <N>] <message> gives Line = N and Warning = <message>;
\* any other cell, [Line <N>] without a message included, gives Line = null
\* and Warning = the cell.
C8_LineAndWarningSplit ==
    xpc = "done" /\ Len(result) = Len(MatchingRows) =>
        \A j \in 1..Len(result) :
            LET cell == MatchingRows[j].LineAndWarning
            IN  IF cell.kind = "str" /\ HasLinePrefix(cell.text)
                   /\ Message(cell.text) # <<>>
                THEN /\ result[j].Line = <<Number(cell.text)>>
                     /\ result[j].Warning = Text(Message(cell.text))
                ELSE IF cell.kind = "str" /\ HasLinePrefix(cell.text)
                        /\ AfterBracket(cell.text) # <<>>
                THEN TRUE
                ELSE /\ result[j].Line = None
                     /\ result[j].Warning = cell

\* An exception is raised on the way: the workbook cannot be read, the Line
\* and Warning or the File column is absent, or a row is selected and the
\* Path or the Misra column is absent.
Raises ==
    \/ workbook.fault \in {"unreadable", "Line and Warning", "File"}
    \/ workbook.fault \in {"Path", "Misra"} /\ MatchingRows # <<>>

\* C9: the result is always a list: one record per row of the target file,
\* in sheet order; the empty list when no row matches; and the empty list,
\* with a report on stderr, when the sheet cannot be read or lacks a column.
C9_AlwaysAList ==
    /\ xpc \in {"read", "parse", "filter", "iter", "except", "done"}
    /\ xpc = "iter" => row_i <= Len(filtered_df)
    /\ xpc = "done" =>
          /\ stdout = <<result>>
          /\ Raises => result = <<>> /\ stderr = <<"Error parsing Excel file">>
          /\ ~Raises =>
                /\ Len(result) = Len(MatchingRows)
                /\ \A j \in 1..Len(result) :
                      /\ result[j].File = target_file
                      /\ result[j].Path = MatchingRows[j].Path
                      /\ result[j].Misra = MatchingRows[j].Misra
                      /\ result[j].Level =
                            IF workbook.fault = "Level" THEN ""
                            ELSE MatchingRows[j].Level
                      /\ result[j].Line =
                            parse_line_warning(MatchingRows[j].LineAndWarning).Line
                      /\ result[j].Warning =
                            parse_line_warning(MatchingRows[j].LineAndWarning).Warning
          /\ MatchingRows = <<>> => result = <<>>

C9_Witness ==
    /\ xpc = "done"
    /\ Len(result) > 1
    /\ result[1].Warning # result[2].Warning
    /\ result[1].Warning = parse_line_warning(workbook.rows[1].LineAndWarning).Warning

====
